---------------------------- MODULE Spec2Model ----------------------------
(***************************************************************************)
(* Model of the TikTok download relay (src/app.py): the request handler    *)
(* download_tiktok, the redirect resolver follow_tiktok_redirects, the     *)
(* upstream fetcher fetch_from_tikwm and the file cache wrapped around it   *)
(* by cache_result.                                                        *)
(*                                                                         *)
(* Strings are sequences of one-character strings, so that strip, split,   *)
(* substring search and the cache-key substitution are computed character  *)
(* by character as Python computes them.                                   *)
(*                                                                         *)
(* Each worker runs one request at a time; the handler is split into one   *)
(* step per access to something shared (the network, the clock, a cache    *)
(* file), which are the points where concurrent requests interleave.       *)
(* The serialised result of a fetch is flushed by one write when the file  *)
(* is closed (it is far smaller than Python's 8192-byte write buffer), so  *)
(* a writer has two steps: the truncating open and the write.              *)
(***************************************************************************)
EXTENDS Integers, Sequences, FiniteSets, TLC

\* ------------------------------------------------------------------ bounds
\* Total number of requests received in one behaviour.
MaxRequests == 2
\* Total number of requests received in one behaviour of the concurrent
\* specification.
MaxConcRequests == 2
\* Number of times the clock advances in one behaviour.
MaxTicks == 2
\* Longest URL drawn for the cache-key specification.
MaxKeyLen == 2

\* ------------------------------------------------------- program constants
CACHE_EXPIRY == 3600
\* The host-length threshold of the short-URL test.
SHORT_HOST_LEN == 15

\* Python's None, and the absence of a cache file.
None == [none |-> TRUE]
NoFile == [exists |-> FALSE]

\* ----------------------------------------------------------------- strings
VM_HOST == <<"v", "m", ".", "t", "i", "k", "t", "o", "k", ".", "c", "o", "m">>
VT_HOST == <<"v", "t", ".", "t", "i", "k", "t", "o", "k", ".", "c", "o", "m">>
SEP2 == <<"/", "/">>
SEP1 == <<"/">>

Alnum ==
  {"a", "b", "c", "d", "e", "f", "g", "h", "i", "j", "k", "l", "m", "n", "o",
   "p", "q", "r", "s", "t", "u", "v", "w", "x", "y", "z", "A", "B", "C", "D",
   "E", "F", "G", "H", "I", "J", "K", "L", "M", "N", "O", "P", "Q", "R", "S",
   "T", "U", "V", "W", "X", "Y", "Z", "0", "1", "2", "3", "4", "5", "6", "7",
   "8", "9"}

Whitespace == {" ", "\t", "\n"}

\* Python's s.find(sub) + 1: the first index where sub occurs in s, 0 if none.
Find(s, sub) ==
  LET hits == {i \in 1..(Len(s) - Len(sub) + 1) : SubSeq(s, i, i + Len(sub) - 1) = sub}
  IN IF hits = {} THEN 0 ELSE CHOOSE i \in hits : \A j \in hits : i <= j

\* Python's `sub in s`.
Contains(s, sub) == Find(s, sub) # 0

\* Python's s.split(sep): the pieces between non-overlapping occurrences of
\* sep, scanning from the left.
RECURSIVE Split(_, _)
Split(s, sep) ==
  LET i == Find(s, sep)
  IN IF i = 0 THEN <<s>>
     ELSE <<SubSeq(s, 1, i - 1)>> \o Split(SubSeq(s, i + Len(sep), Len(s)), sep)

\* Python's s.strip(): leading and trailing whitespace removed.
RECURSIVE Strip(_)
Strip(s) ==
  IF s = <<>> THEN s
  ELSE IF Head(s) \in Whitespace THEN Strip(Tail(s))
  ELSE IF s[Len(s)] \in Whitespace THEN Strip(SubSeq(s, 1, Len(s) - 1))
  ELSE s

\* Faulty variant: '.' is kept as well.
CacheKeyKeepsDot(url) ==
  [i \in 1..Len(url) |-> IF url[i] \in Alnum \cup {"."} THEN url[i] ELSE "_"]

\* Line 43: re.sub(r'[^a-zA-Z0-9]', '_', url).
CacheKey(url) ==
  [i \in 1..Len(url) |-> IF url[i] \in Alnum THEN url[i] ELSE "_"]


\* ------------------------------------------------------------------ inputs
UrlShort == <<"h", "t", "t", "p", "s", ":", "/", "/", "v", "m", ".", "t", "i", "k", "t", "o", "k", ".", "c", "o", "m", "/", "a">>
UrlBare == <<"v", "t", ".", "t", "i", "k", "t", "o", "k", ".", "c", "o", "m", "/", "a">>
UrlWww == <<"h", "t", "t", "p", "s", ":", "/", "/", "w", "w", "w", ".", "t", "i", "k", "t", "o", "k", ".", "c", "o", "m", "/", "v", "/", "1">>
UrlLong == <<"h", "t", "t", "p", "s", ":", "/", "/", "w", "e", "b", "a", "p", "p", ".", "t", "i", "k", "t", "o", "k", ".", "c", "o", "m", "/", "v", "/", "1">>
UrlLongAlt == <<"h", "t", "t", "p", "s", ":", "/", "/", "w", "e", "b", "a", "p", "p", ".", "t", "i", "k", "t", "o", "k", ".", "c", "o", "m", "/", "v", "?", "1">>
UrlPadded == <<" ", "h", "t", "t", "p", "s", ":", "/", "/", "w", "e", "b", "a", "p", "p", ".", "t", "i", "k", "t", "o", "k", ".", "c", "o", "m", "/", "v", "/", "1", " ">>
UrlNoSep == <<"t", "i", "k", "t", "o", "k">>
UrlBlank == <<" ", " ">>
UrlEmpty == <<>>

\* The url values a client sends.
ClientUrls ==
  {UrlShort, UrlBare, UrlWww, UrlLong, UrlLongAlt, UrlPadded, UrlNoSep,
   UrlBlank, UrlEmpty}

\* A body that request.get_json() rejects (the except branch of the handler).
BadBody == [bad |-> TRUE]
\* A parsed body without a url field.
NoUrlBody == [hd |-> 1]

\* The parsed request bodies (params), and the unparsable one.
Bodies == {BadBody, NoUrlBody} \cup {[url |-> u] : u \in ClientUrls}

\* The final URLs a redirect chain can end at, besides the probed URL itself.
FinalUrls == {UrlLong}

\* Every URL the fetcher can be called with, and the cache files they name.
FetchUrls == {Strip(u) : u \in ClientUrls} \cup FinalUrls
CacheFiles == {CacheKey(u) : u \in FetchUrls}

\* ------------------------------------------------- the handler's URL tests
\* params has no url, or an empty one (line 220).
UrlMissing(params) ==
  \/ "url" \notin DOMAIN params
  \/ params.url = <<>>

\* len(tiktok_url.split('//')[1].split('/')[0])
HostLen(url) == Len(Split(Split(url, SEP2)[2], SEP1)[1])

\* The condition of line 232-234 raises IndexError: neither short host occurs
\* and split('//') has no second element.
ShortTestRaises(url) ==
  /\ ~Contains(url, VM_HOST)
  /\ ~Contains(url, VT_HOST)
  /\ Len(Split(url, SEP2)) < 2

\* The condition of line 232-234, where it does not raise.
IsShortUrl(url) ==
  \/ Contains(url, VM_HOST)
  \/ Contains(url, VT_HOST)
  \/ HostLen(url) < SHORT_HOST_LEN

\* ---------------------------------------------------------------- upstream
\* The play field of an upstream answer: a video URL, or an empty string.
Play1 == <<"p">>
PlayEmpty == <<>>
Plays == {PlayEmpty, Play1}

\* The data object of a well-formed upstream answer for the posted url; the
\* id stands for everything in the answer that names the video.
VideoData(url, play) ==
  [play |-> play, cover |-> "cover", author |-> [unique_id |-> "user"],
   title |-> "title", id |-> url]

\* What requests.post and response.json() can give for a posted url.
UpstreamResponses(url) ==
  {[kind |-> "exception"],
   [kind |-> "http", status_code |-> 500],
   [kind |-> "http", status_code |-> 200, json |-> [valid |-> FALSE]],
   [kind |-> "http", status_code |-> 200, json |-> [valid |-> TRUE, code |-> 0]],
   [kind |-> "http", status_code |-> 200,
    json |-> [valid |-> TRUE, code |-> 0, data |-> [cover |-> "cover"]]]}
  \cup {[kind |-> "http", status_code |-> 200,
         json |-> [valid |-> TRUE, code |-> 0 - 1,
                   data |-> VideoData(url, Play1)]]}
  \cup {[kind |-> "http", status_code |-> 200,
         json |-> [valid |-> TRUE, code |-> 0,
                   data |-> VideoData(url, p)]] : p \in Plays}

DataFields == {"play", "cover", "author", "title", "id"}

\* Faulty variant: the code field of the answer is not looked at.
fetch_from_tikwm_any_code(resp) ==
  IF resp.kind # "http" THEN None
  ELSE IF resp.status_code # 200 THEN None
  ELSE IF ~resp.json.valid THEN None
  ELSE IF "data" \notin DOMAIN resp.json THEN None
  ELSE IF ~(DataFields \subseteq DOMAIN resp.json.data) THEN None
  ELSE [video_url |-> resp.json.data.play, video_id |-> resp.json.data.id,
        method |-> "tikwm"]

\* The body of fetch_from_tikwm after the post: None on a transport
\* exception, a status other than 200, a body that is not JSON, a missing
\* data or a code other than 0, and on the KeyError of a missing field.
fetch_from_tikwm(resp) ==
  IF resp.kind # "http" THEN None
  ELSE IF resp.status_code # 200 THEN None
  ELSE IF ~resp.json.valid THEN None
  ELSE IF "data" \notin DOMAIN resp.json \/ resp.json.code # 0 THEN None
  ELSE IF ~(DataFields \subseteq DOMAIN resp.json.data) THEN None
  ELSE [video_url |-> resp.json.data.play, video_id |-> resp.json.data.id,
        method |-> "tikwm"]

\* ------------------------------------------------------------- cache files
\* json.dump(result, f): the text written, in units; a longer video_url
\* makes a longer text.
Dump(result) ==
  IF "video_url" \in DOMAIN result
  THEN [i \in 1..(1 + Len(result.video_url)) |-> <<result, i>>]
  ELSE <<<<result, 1>>>>

\* json.load(f) of a file's text: the result whose dump it is, or "error"
\* (JSONDecodeError) for an empty text, a truncated one, or a complete dump
\* followed by the tail of a longer one.
LoadError == [error |-> "JSONDecodeError"]

\* Faulty variant: a text that is no complete dump is read as a result with the
\* fields that could be made out.
LoadLenient(text) ==
  IF text # <<>> /\ text = Dump(text[1][1]) THEN text[1][1]
  ELSE [method |-> "tikwm"]

Load(text) ==
  IF text # <<>> /\ text = Dump(text[1][1]) THEN text[1][1] ELSE LoadError

\* Writing text at offset 0 of a file that holds old: what lies beyond the
\* written text stays.
Overwrite(old, text) ==
  IF Len(old) > Len(text) THEN text \o SubSeq(old, Len(text) + 1, Len(old))
  ELSE text

\* ------------------------------------------------------------------- state
VARIABLES
  req,      \* per worker: the request it serves and where its handler stands
  files,    \* the cache directory: per cache file, NoFile or [mtime, text]
  now,      \* time.time()
  ticks,    \* how often the clock has advanced
  started,  \* how many requests have been received
  posted,   \* the URLs the upstream API has been called with
  u1, u2,   \* the two URLs of the cache-key specification
  k1, k2    \* and the cache keys derived from them

keyvars == <<u1, u2, k1, k2>>
vars == <<req, files, now, ticks, started, posted, u1, u2, k1, k2>>

\* The framework's worker threads, each serving one request at a time.
Workers == {"w1", "w2"}

\* The probe of a request that has not called follow_tiktok_redirects.
NoProbe == [ok |-> FALSE]
\* The file_age of a request that has not computed one.
NoAge == 0 - 1
\* The text of a request that has not read its cache file.
NoText == <<<<None, 0>>>>

\* A worker with no request. Besides the handler's locals (params,
\* tiktok_url, file_age, result, response) a request records what it did:
\* redirects and calls count the calls of follow_tiktok_redirects and of the
\* upstream API, probe and resp are what the network answered, looked_at
\* is the time of the cache lookup, lookup what it found and read_text the
\* text it read, wrote and after_write what the cache write did.
IdleReq ==
  [pc |-> "idle", params |-> None, tiktok_url |-> <<>>, redirects |-> 0,
   probe |-> NoProbe, calls |-> 0, resp |-> None, result |-> None,
   looked_at |-> 0, file_age |-> NoAge, read_text |-> NoText,
   lookup |-> "none", wrote |-> "no", after_write |-> NoFile,
   response |-> None]

\* The clock advances by half the expiry time.
TickSteps == {CACHE_EXPIRY \div 2}

\* ------------------------------------------------------------- the handler
BadRequest(message) == [status |-> 400, success |-> FALSE, error |-> message]
\* An exception that leaves the handler: Flask's 500 handler answers.
ServerError == [status |-> 500, success |-> FALSE, error |-> "Internal server error"]
DownloadFailed ==
  [status |-> 500, success |-> FALSE, error |-> "Failed to download TikTok video."]
DownloadOk(result) ==
  [status |-> 200, success |-> TRUE, video_url |-> result.video_url,
   video_id |-> result.video_id, method |-> "tikwm"]

\* tikwm_result and tikwm_result.get('video_url') (line 243).
HasVideoUrl(result) ==
  result # None /\ "video_url" \in DOMAIN result /\ result.video_url # <<>>

\* Lines 243-264: the response for tikwm_result.
Respond(result) ==
  IF HasVideoUrl(result) THEN DownloadOk(result) ELSE DownloadFailed

\* Faulty variant: the wrapper caches whatever the fetch returned.
ShouldCacheAlways(result) == TRUE

\* result and 'video_url' in result (line 61).
ShouldCache(result) ==
  result # None /\ "video_url" \in DOMAIN result

\* Faulty variant: an entry exactly as old as the expiry still counts as fresh.
IsFreshInclusive(file_age) == file_age <= CACHE_EXPIRY

\* file_age < CACHE_EXPIRY (line 49).
IsFresh(file_age) == file_age < CACHE_EXPIRY

\* requests needs a scheme: without one the probe raises before any I/O.
HasScheme(url) == Contains(url, <<":", "/", "/">>)

\* What requests.head can do for a URL: fail, or end at the URL itself or
\* at the end of a redirect chain.
ProbeOutcomes(url) ==
  {[ok |-> FALSE]}
  \cup (IF HasScheme(url)
        THEN {[ok |-> TRUE, url |-> f] : f \in {url} \cup FinalUrls}
        ELSE {})

\* Faulty variant: a failed probe gives no URL.
follow_tiktok_redirects_raising(url, outcome) ==
  IF outcome.ok THEN outcome.url ELSE <<>>

\* Faulty variant: the resolved URL is dropped and the probed one kept.
follow_tiktok_redirects_unused(url, outcome) == url

\* follow_tiktok_redirects: response.url, or url when the probe raised.
follow_tiktok_redirects(url, outcome) ==
  IF outcome.ok THEN outcome.url ELSE url

\* Lines 205-238 up to the first network call: parse, validate, strip and
\* the short-URL test. A worker takes its next request when it has answered
\* the last.
Receive(w, body, max) ==
  /\ req[w].pc \in {"idle", "done"}
  /\ started < max
  /\ started' = started + 1
  /\ req' = [req EXCEPT ![w] =
       IF body = BadBody
       THEN [IdleReq EXCEPT !.pc = "done", !.params = body,
                            !.response = BadRequest("Invalid request data")]
       ELSE IF UrlMissing(body)
       THEN [IdleReq EXCEPT !.pc = "done", !.params = body,
                            !.response = BadRequest("TikTok URL is required.")]
       ELSE LET url == Strip(body.url) IN
         IF ShortTestRaises(url)
         THEN [IdleReq EXCEPT !.pc = "done", !.params = body,
                              !.tiktok_url = url, !.response = ServerError]
         ELSE [IdleReq EXCEPT !.pc = IF IsShortUrl(url) THEN "redirect" ELSE "exists",
                              !.params = body, !.tiktok_url = url]]
  /\ UNCHANGED <<files, now, ticks, posted, keyvars>>

\* Lines 236-238: final_url = follow_tiktok_redirects(tiktok_url).
FollowRedirect(w) ==
  /\ req[w].pc = "redirect"
  /\ \E outcome \in ProbeOutcomes(req[w].tiktok_url) :
       req' = [req EXCEPT ![w].pc = "exists",
                          ![w].redirects = @ + 1,
                          ![w].probe = outcome,
                          ![w].tiktok_url = follow_tiktok_redirects(@, outcome)]
  /\ UNCHANGED <<files, now, ticks, started, posted, keyvars>>

\* The wrapper's cache_file for the URL the fetcher was called with.
cache_file(w) == CacheKey(req[w].tiktok_url)

\* Line 47: os.path.exists(cache_file).
CacheExists(w) ==
  /\ req[w].pc = "exists"
  /\ req' = IF files[cache_file(w)] = NoFile
            THEN [req EXCEPT ![w].pc = "fetch", ![w].lookup = "absent",
                             ![w].looked_at = now]
            ELSE [req EXCEPT ![w].pc = "age", ![w].looked_at = now]
  /\ UNCHANGED <<files, now, ticks, started, posted, keyvars>>

\* Lines 48-49: file_age = time.time() - os.path.getmtime(cache_file).
CacheAge(w) ==
  /\ req[w].pc = "age"
  /\ LET file_age == now - files[cache_file(w)].mtime IN
       req' = IF IsFresh(file_age)
              THEN [req EXCEPT ![w].pc = "read", ![w].file_age = file_age]
              ELSE [req EXCEPT ![w].pc = "fetch", ![w].file_age = file_age,
                               ![w].lookup = "stale"]
  /\ UNCHANGED <<files, now, ticks, started, posted, keyvars>>

\* Lines 50-55: return json.load(f) to the handler, which answers; or log
\* the error and go on to the fetch.
CacheRead(w) ==
  /\ req[w].pc = "read"
  /\ LET text == files[cache_file(w)].text
         loaded == Load(text) IN
       req' = IF loaded # LoadError
              THEN [req EXCEPT ![w].pc = "done", ![w].lookup = "hit",
                               ![w].read_text = text,
                               ![w].result = loaded,
                               ![w].response = Respond(loaded)]
              ELSE [req EXCEPT ![w].pc = "fetch", ![w].lookup = "unreadable",
                               ![w].read_text = text]
  /\ UNCHANGED <<files, now, ticks, started, posted, keyvars>>

\* Line 58 with lines 134-177: the one call of the upstream API. A result
\* that is not cached goes back to the handler, which answers.
CallUpstream(w) ==
  /\ req[w].pc = "fetch"
  /\ \E resp \in UpstreamResponses(req[w].tiktok_url) :
       LET result == fetch_from_tikwm(resp) IN
         req' = IF ShouldCache(result)
                THEN [req EXCEPT ![w].pc = "open", ![w].calls = @ + 1,
                                 ![w].resp = resp, ![w].result = result]
                ELSE [req EXCEPT ![w].pc = "done", ![w].calls = @ + 1,
                                 ![w].resp = resp, ![w].result = result,
                                 ![w].response = Respond(result)]
  /\ posted' = posted \cup {req[w].tiktok_url}
  /\ UNCHANGED <<files, now, ticks, started, keyvars>>

\* Line 63: open(cache_file, 'w') creates or truncates the file, or raises
\* IOError and leaves it as it was.
CacheOpen(w) ==
  /\ req[w].pc = "open"
  /\ \E ok \in BOOLEAN :
       IF ok
       THEN /\ files' = [files EXCEPT ![cache_file(w)] = [mtime |-> now, text |-> <<>>]]
            /\ req' = [req EXCEPT ![w].pc = "write", ![w].wrote = "opened"]
       ELSE /\ files' = files
            /\ req' = [req EXCEPT ![w].pc = "done", ![w].wrote = "open_error",
                                  ![w].response = Respond(req[w].result)]
  /\ UNCHANGED <<now, ticks, started, posted, keyvars>>

\* Lines 64-67: json.dump(result, f) and the close that flushes it at
\* offset 0, or an IOError that leaves the file as it is. The wrapper
\* returns the result and the handler answers.
CacheWrite(w) ==
  /\ req[w].pc = "write"
  /\ \E ok \in BOOLEAN :
       IF ok
       THEN LET written == [mtime |-> now,
                            text |-> Overwrite(files[cache_file(w)].text,
                                               Dump(req[w].result))] IN
            /\ files' = [files EXCEPT ![cache_file(w)] = written]
            /\ req' = [req EXCEPT ![w].pc = "done", ![w].wrote = "written",
                                  ![w].after_write = written,
                                  ![w].response = Respond(req[w].result)]
       ELSE /\ files' = files
            /\ req' = [req EXCEPT ![w].pc = "done", ![w].wrote = "write_error",
                                  ![w].response = Respond(req[w].result)]
  /\ UNCHANGED <<now, ticks, started, posted, keyvars>>

\* Time passes.
Tick ==
  /\ ticks < MaxTicks
  /\ \E d \in TickSteps : now' = now + d
  /\ ticks' = ticks + 1
  /\ UNCHANGED <<req, files, started, posted, keyvars>>

\* The server has started: no request yet, and an empty cache directory.
ServerInit ==
  /\ req = [w \in Workers |-> IdleReq]
  /\ files = [f \in CacheFiles |-> NoFile]
  /\ now = 0
  /\ ticks = 0
  /\ started = 0
  /\ posted = {}

KeyUnset == <<"unset">>

Init ==
  /\ ServerInit
  /\ u1 = <<>>
  /\ u2 = <<>>
  /\ k1 = KeyUnset
  /\ k2 = KeyUnset

\* Requests served one after the other: every body a client can send.
Next ==
  \/ \E body \in Bodies : Receive("w1", body, MaxRequests)
  \/ FollowRedirect("w1")
  \/ CacheExists("w1")
  \/ CacheAge("w1")
  \/ CacheRead("w1")
  \/ CallUpstream("w1")
  \/ CacheOpen("w1")
  \/ CacheWrite("w1")
  \/ Tick

Spec == Init /\ [][Next]_vars

\* Requests served concurrently, for two URLs that share a cache file.
ConcBodies == {[url |-> UrlLong], [url |-> UrlLongAlt]}

\* The framework hands a request to a free worker; which one it takes makes
\* no difference, so it is the first.
FirstFree(w) ==
  /\ req[w].pc \in {"idle", "done"}
  /\ w = "w2" => req["w1"].pc \notin {"idle", "done"}

ConcNext ==
  \/ \E w \in Workers, body \in ConcBodies :
       FirstFree(w) /\ Receive(w, body, MaxConcRequests)
  \/ \E w \in Workers : CacheExists(w)
  \/ \E w \in Workers : CacheAge(w)
  \/ \E w \in Workers : CacheRead(w)
  \/ \E w \in Workers : CallUpstream(w)
  \/ \E w \in Workers : CacheOpen(w)
  \/ \E w \in Workers : CacheWrite(w)
  \/ Tick

ConcSpec == Init /\ [][ConcNext]_vars

\* ------------------------------------------ the cache key, as a function
\* The characters the URLs of the cache-key specification are made of.
KeyAlphabet == {"a", "Z", "0", "_", "/", "."}

RECURSIVE StringsUpTo(_)
StringsUpTo(n) ==
  IF n = 0 THEN {<<>>}
  ELSE LET shorter == StringsUpTo(n - 1) IN
       shorter \cup {Append(t, c) : t \in shorter, c \in KeyAlphabet}

KeyUrls == StringsUpTo(MaxKeyLen)

KeyInit ==
  /\ ServerInit
  /\ u1 \in KeyUrls
  /\ u2 \in KeyUrls
  /\ k1 = KeyUnset
  /\ k2 = KeyUnset

\* Line 43 for the first URL, and for the second.
DeriveKey1 ==
  /\ k1 = KeyUnset
  /\ k1' = CacheKey(u1)
  /\ UNCHANGED <<req, files, now, ticks, started, posted, u1, u2, k2>>

DeriveKey2 ==
  /\ k2 = KeyUnset
  /\ k2' = CacheKey(u2)
  /\ UNCHANGED <<req, files, now, ticks, started, posted, u1, u2, k1>>

KeyNext == DeriveKey1 \/ DeriveKey2

KeySpec == KeyInit /\ [][KeyNext]_vars

\* ------------------------------------------------------------ properties
Done(w) == req[w].pc = "done"

\* The request carries a non-empty url.
HasUrl(w) == "url" \in DOMAIN req[w].params /\ req[w].params.url # <<>>

\* The url the client sent, stripped.
ClientUrl(w) == Strip(req[w].params.url)

\* The request reached the fetcher (the wrapper's cache lookup began).
FetcherCalled(w) == req[w].lookup # "none"

\* The upstream call failed: a transport exception, a status other than
\* 200, a body that is no JSON, a code other than 0, no data, or a data
\* object without the fields the fetcher reads.
UpstreamFailed(resp) ==
  \/ resp.kind = "exception"
  \/ resp.status_code # 200
  \/ ~resp.json.valid
  \/ resp.json.code # 0
  \/ "data" \notin DOMAIN resp.json
  \/ "play" \notin DOMAIN resp.json.data

\* The well-formed results an upstream call for url can produce.
CompleteResults(url) ==
  {[video_url |-> p, video_id |-> url, method |-> "tikwm"] : p \in Plays}

\* C1: a cache file is created or changed only by a step of a request whose
\* one upstream call succeeded and whose result holds a video_url; a request
\* whose fetch failed leaves every cache file, a stale one included, as it
\* was.
C1_OnlySuccessfulFetchWritesCache ==
  [][\A f \in CacheFiles :
       files'[f] # files[f] =>
         \E w \in Workers :
           /\ cache_file(w) = f
           /\ req[w].calls = 1
           /\ ~UpstreamFailed(req[w].resp)
           /\ req[w].result # None
           /\ "video_url" \in DOMAIN req[w].result]_vars

\* A request found a stale entry, its fetch failed, and the stale entry is
\* still there and readable.
C1_Witness ==
  \E w \in Workers :
    /\ Done(w)
    /\ req[w].lookup = "stale"
    /\ req[w].calls = 1
    /\ req[w].result = None
    /\ files[cache_file(w)] # NoFile
    /\ Load(files[cache_file(w)].text) # LoadError

\* C2 as stated: an entry younger than 3600 s is served without an upstream
\* call; otherwise the upstream is called and, on success, the entry is
\* overwritten with the result and is fresh again (an IOError of the open
\* or the write aside, which the claim does not speak of).
C2_FreshServedElseRefreshed ==
  \A w \in Workers :
    Done(w) /\ FetcherCalled(w) =>
      IF req[w].file_age # NoAge /\ req[w].file_age < CACHE_EXPIRY
      THEN /\ req[w].calls = 0
           /\ req[w].lookup = "hit"
           /\ req[w].result = Load(req[w].read_text)
      ELSE /\ req[w].calls = 1
           /\ req[w].result # None =>
                /\ req[w].wrote \in {"written", "open_error", "write_error"}
                /\ req[w].wrote = "written" =>
                     /\ Load(req[w].after_write.text) = req[w].result
                     /\ req[w].after_write.mtime >= req[w].looked_at

\* C2 as amended: an entry younger than 3600 s whose text is readable is
\* served without an upstream call and without a write; otherwise (no entry,
\* an entry 3600 s old or older, or an unreadable one) the upstream is called
\* once and, on success, the request writes its result at the start of the
\* entry and refreshes its mtime, unless the open or the write raises IOError.
C2_ReadableFreshServedElseRefreshed ==
  \A w \in Workers :
    Done(w) /\ FetcherCalled(w) =>
      IF /\ req[w].file_age # NoAge
         /\ req[w].file_age < CACHE_EXPIRY
         /\ Load(req[w].read_text) # LoadError
      THEN /\ req[w].calls = 0
           /\ req[w].result = Load(req[w].read_text)
           /\ req[w].wrote = "no"
      ELSE /\ req[w].calls = 1
           /\ req[w].result # None =>
                /\ req[w].wrote \in {"written", "open_error", "write_error"}
                /\ req[w].wrote = "written" =>
                     /\ SubSeq(req[w].after_write.text, 1, Len(Dump(req[w].result)))
                          = Dump(req[w].result)
                     /\ req[w].after_write.mtime >= req[w].looked_at

\* A request found an entry exactly 3600 s old, fetched and rewrote it.
C2_Witness ==
  \E w \in Workers :
    /\ Done(w)
    /\ req[w].file_age = CACHE_EXPIRY
    /\ req[w].calls = 1
    /\ req[w].wrote = "written"

\* C3: a request makes at most one upstream call, and when that call fails
\* in any of the ways the fetcher distinguishes, the fetcher's result is None
\* and the request is answered success: false with status 500.
C3_OneCallAndFailureIs500 ==
  \A w \in Workers :
    /\ req[w].calls <= 1
    /\ Done(w) /\ req[w].calls = 1 /\ UpstreamFailed(req[w].resp) =>
         /\ req[w].result = None
         /\ req[w].response.status = 500
         /\ req[w].response.success = FALSE

\* The upstream answered 200 with a code other than 0 and the request was
\* answered 500.
C3_Witness ==
  \E w \in Workers :
    /\ Done(w)
    /\ req[w].calls = 1
    /\ req[w].resp.kind = "http"
    /\ req[w].resp.status_code = 200
    /\ req[w].resp.json.valid
    /\ req[w].resp.json.code # 0
    /\ req[w].response.status = 500

\* C4 as stated: for a URL that contains a short-link host or whose host is
\* shorter than 15 characters, redirect-following is called exactly once and
\* the fetcher gets the URL it returned; for every other URL it is not called
\* and the fetcher gets the URL unchanged.
C4_RedirectExactlyForShortUrls ==
  \A w \in Workers :
    Done(w) /\ HasUrl(w) =>
      LET url == ClientUrl(w)
          short == \/ Contains(url, VM_HOST)
                   \/ Contains(url, VT_HOST)
                   \/ Len(Split(url, SEP2)) >= 2 /\ HostLen(url) < SHORT_HOST_LEN
      IN IF short
         THEN /\ req[w].redirects = 1
              /\ FetcherCalled(w)
              /\ req[w].tiktok_url = IF req[w].probe.ok THEN req[w].probe.url ELSE url
         ELSE /\ req[w].redirects = 0
              /\ FetcherCalled(w)
              /\ req[w].tiktok_url = url

\* C5: when the redirect probe fails the resolver gives back the URL it was
\* called with, the request goes on to the fetcher with it, and the response
\* is the one the fetch result alone decides.
C5_FailedProbeFallsBack ==
  \A w \in Workers :
    req[w].redirects = 1 /\ ~req[w].probe.ok =>
      /\ req[w].tiktok_url = ClientUrl(w)
      /\ Done(w) =>
           /\ FetcherCalled(w)
           /\ req[w].response.status =
                IF req[w].result # None /\ req[w].result.video_url # <<>>
                THEN 200 ELSE 500
           /\ req[w].response # ServerError

\* A request whose probe failed was answered 200.
C5_Witness ==
  \E w \in Workers :
    /\ Done(w)
    /\ req[w].redirects = 1
    /\ ~req[w].probe.ok
    /\ req[w].response.status = 200

\* The url is missing, empty, blank, or has no '//' separator.
Malformed(params) ==
  \/ params = BadBody
  \/ "url" \notin DOMAIN params
  \/ Strip(params.url) = <<>>
  \/ ~Contains(Strip(params.url), SEP2)

\* C6 as stated: a request whose url is missing, empty or malformed is
\* answered success: false with status 400, without redirect-following,
\* without an upstream call and without touching the cache.
C6_MalformedUrlIs400 ==
  \A w \in Workers :
    Done(w) /\ Malformed(req[w].params) =>
      /\ req[w].response.status = 400
      /\ req[w].response.success = FALSE
      /\ req[w].redirects = 0
      /\ req[w].calls = 0
      /\ req[w].wrote = "no"

\* C7: whatever the interleaving, a request that reached the fetcher returns
\* None or a complete result of an upstream call that was made for a URL of
\* its cache file, and for its own URL when no other URL was ever fetched; a
\* request that read a text that is no complete dump went on to one upstream
\* call, and a request served from the cache returns what the text it read
\* parses to.
C7_RacesNeverReturnPartial ==
  \A w \in Workers :
    Done(w) /\ FetcherCalled(w) =>
      /\ req[w].result # None =>
           /\ \E u \in FetchUrls : req[w].result \in CompleteResults(u)
           /\ req[w].result.video_id \in posted
           /\ CacheKey(req[w].result.video_id) = cache_file(w)
           /\ posted \subseteq {req[w].tiktok_url} =>
                req[w].result.video_id = req[w].tiktok_url
      /\ req[w].read_text # NoText /\ Load(req[w].read_text) = LoadError =>
           req[w].calls = 1
      /\ req[w].lookup = "hit" =>
           /\ req[w].calls = 0
           /\ req[w].result = Load(req[w].read_text)

\* A request read the entry between the truncating open and the write of
\* another request, fetched and returned a result.
C7_Witness ==
  \E w, v \in Workers :
    /\ v # w
    /\ Done(w)
    /\ req[w].read_text = <<>>
    /\ req[w].calls = 1
    /\ req[w].result # None
    /\ req[v].wrote = "written"

\* The URL the fetcher is called with: what the probe resolved to, else the
\* stripped url of the client.
FetchedUrl(w) == IF req[w].probe.ok THEN req[w].probe.url ELSE ClientUrl(w)

\* C8 as stated: the entry a successful request writes is keyed by the
\* sanitized URL the client sent.
C8_KeyedByClientUrl ==
  \A w \in Workers :
    Done(w) /\ req[w].wrote = "written" =>
      files[CacheKey(ClientUrl(w))] = req[w].after_write

\* C8 as amended: the entry a successful request writes is keyed by the
\* sanitized URL the fetcher was called with, which is the URL the redirect
\* probe resolved to when it was made and succeeded and the stripped client
\* URL otherwise; a request served from the cache is served an entry written
\* for a URL with the key of the URL its own resolution gave.
C8_KeyedByFetchedUrl ==
  \A w \in Workers :
    /\ Done(w) /\ req[w].wrote = "written" =>
         files[CacheKey(FetchedUrl(w))] = req[w].after_write
    /\ Done(w) /\ req[w].lookup = "hit" =>
         CacheKey(req[w].result.video_id) = CacheKey(FetchedUrl(w))

\* A short link resolved to a URL with another key, and the entry was
\* written.
C8_Witness ==
  \E w \in Workers :
    /\ Done(w)
    /\ req[w].wrote = "written"
    /\ req[w].probe.ok
    /\ CacheKey(req[w].probe.url) # CacheKey(ClientUrl(w))

\* Same length, and equal wherever either holds an alphanumeric character.
SameShape(a, b) ==
  /\ Len(a) = Len(b)
  /\ \A i \in 1..Len(a) : (a[i] \in Alnum \/ b[i] \in Alnum) => a[i] = b[i]

\* C9: the key keeps the alphanumeric characters and puts '_' for every
\* other one, so two URLs get the same key exactly when they have the same
\* length and agree wherever either holds an alphanumeric character.
C9_SameKeyIffSameShape ==
  k1 # KeyUnset /\ k2 # KeyUnset =>
    /\ Len(k1) = Len(u1)
    /\ \A i \in 1..Len(u1) : k1[i] = IF u1[i] \in Alnum THEN u1[i] ELSE "_"
    /\ (k1 = k2) <=> SameShape(u1, u2)

\* Two different URLs that differ in a non-alphanumeric character only got
\* the same key.
C9_Witness ==
  /\ k1 # KeyUnset
  /\ k2 # KeyUnset
  /\ u1 # u2
  /\ k1 = k2

\* C10 as stated: every readable cache entry holds a result whose video_url
\* is non-empty, and every request served from the cache is answered
\* success: true with status 200.
C10_CachedEntriesAreValid ==
  /\ \A f \in CacheFiles :
       files[f] # NoFile /\ Load(files[f].text) # LoadError =>
         Load(files[f].text).video_url # <<>>
  /\ \A w \in Workers :
       Done(w) /\ req[w].lookup = "hit" =>
         /\ req[w].response.status = 200
         /\ req[w].response.success = TRUE

=============================================================================
